---- MODULE Spec2Model ----
(***************************************************************************)
(* addrusage (src/main.go): main -> usage.stats -> usage.branchStats.      *)
(*                                                                         *)
(* The program derives the child keys of the external (0) and internal (1) *)
(* branch of an account xpub, asks dcrd which addresses were ever used,    *)
(* and prints per-window and total counts.  Every counter and index of     *)
(* branchStats is a uint32; the model keeps that arithmetic, modulo        *)
(* Modulus, over a narrower word so that the whole range of the type can   *)
(* be enumerated.                                                          *)
(***************************************************************************)
EXTENDS Naturals, Integers, Sequences, FiniteSets

\* Largest value of the model's unsigned word (math.MaxUint32 in the program).
MaxUint == 5
\* Largest -internal / -internalstart value the initial states enumerate.
MaxInternal == 1
\* At most this many indices of one branch derive to ErrInvalidChild.
MaxInvalid == 2

Modulus == MaxUint + 1
Uint == 0 .. MaxUint
\* Window iterations explored in one branch scan.  A scan that ends runs at
\* most Modulus iterations (the loop variable never repeats in it), so only
\* scans that never end are cut.
MaxIter == Modulus + 1

VARIABLES
    externalFlag, internalFlag, externalStartFlag, internalStartFlag, bucketFlag,
    pc,            \* position of the single thread of control
    branch, n, begin, bucket,          \* branchStats: parameters
    i, max, j, addrs,                  \* branchStats: loop state
    usedBits, used, unused,            \* branchStats: the window's answer
    totalUsed, totalUnused,
    err,           \* the error branchStats / stats return
    exitCode, logged, output,          \* process outcome, stderr, stdout
    inflight, queries,                 \* the RPC connection: outstanding and issued calls
    childResult,   \* hdkeychain: what Child(j) yields on each branch key, once known
    usedAnswer,    \* dcrd: what it answered for an address, once known
    stable,        \* whether dcrd's answers stay the same for the whole session
    windows,       \* history: the windows <<branch, lo, hi>> the loop entered
    run, prevOutput \* which invocation of the program this is; stdout of the one before

flags == <<externalFlag, internalFlag, externalStartFlag, internalStartFlag, bucketFlag>>
locals == <<branch, n, begin, bucket, i, max, j, addrs, usedBits, used, unused,
            totalUsed, totalUnused>>
process == <<exitCode, logged, output>>
rpc == <<inflight, queries>>
oracle == <<childResult, usedAnswer, stable>>
invocation == <<run, prevOutput>>
vars == <<flags, pc, locals, err, process, rpc, oracle, windows, invocation>>

----------------------------------------------------------------------------
\* uint32 arithmetic.
Add32(a, b) == (a + b) % Modulus

\* u.addr: the pay-to-pubkey-hash address of the child key at (branch, index).
Addr(b, idx) == [branch |-> b, index |-> idx]

\* Mutant of WindowMax: the upper bound is not cut to n.
WindowMaxUnclipped(lo, size, count) == Add32(lo, size)

\* max := i + bucket; if max > n { max = n }
WindowMax(lo, size, count) ==
    LET m == Add32(lo, size)
    IN  IF m > count THEN count ELSE m

\* Mutant of CountUsed: the walk over the bitset starts one position late.
CountUsedFromSecond(bits, batch) ==
    Cardinality({p \in 2 .. Len(batch) : bits[p]}) % Modulus

\* for j := range addrs { if usedBits.Get(j) { used++ } else { unused++ } }
CountUsed(bits, batch) ==
    Cardinality({p \in 1 .. Len(batch) : bits[p]}) % Modulus

CountUnused(bits, batch) ==
    Cardinality({p \in 1 .. Len(batch) : ~bits[p]}) % Modulus

\* Mutant of SuppressLine: the test reads the -bucketsize default, which
\* bucket no longer holds once it was replaced by n.
SuppressLineIfZero(size, count) == size = 0

\* if bucket == n { continue }: the condition under which the window's line
\* is not printed.
SuppressLine(size, count) == size = count

\* fmt.Printf("%07d-%07d: % 7d used\t% 7d unused\t(%f)\n", i, max, used, unused,
\*            float64(used)/float64(len(addrs)))
\* den = 0 stands for the NaN the division yields.  The branch field is not
\* printed; it tells the two branches' lines apart.
WindowLine(b, lo, hi, u, un, len) ==
    [kind |-> "window", branch |-> b, lo |-> lo, hi |-> hi,
     used |-> u, unused |-> un, den |-> len]

\* fmt.Printf("totals: % 16d used\t% 7d unused\t(%f)\n", ...)
TotalsLine(b, u, un) ==
    [kind |-> "totals", branch |-> b, lo |-> 0, hi |-> 0,
     used |-> u, unused |-> un, den |-> Add32(u, un)]

\* Indices of a branch already known to be invalid children.
InvalidKnown(b) == {x \in Uint : childResult[b][x] = "invalid"}

\* What branchKey.Child(idx) followed by u.addr can yield.  Derivation is a
\* function of the key and the index: a known result is the only one.
ChildOutcomes(b, idx) ==
    IF childResult[b][idx] # "unknown"
    THEN {childResult[b][idx]}
    ELSE {"ok", "deriveErr", "addrErr"}
         \cup (IF Cardinality(InvalidKnown(b)) < MaxInvalid THEN {"invalid"} ELSE {})

\* The bitsets dcrd can return for a batch: one bit per address, in order.
Bitsets(batch) ==
    {bits \in [1 .. Len(batch) -> BOOLEAN] :
        \A p \in 1 .. Len(batch) :
            LET a == batch[p]
            IN  usedAnswer[a.branch][a.index] # "unknown"
                    => (bits[p] <=> usedAnswer[a.branch][a.index] = "used")}

Remember(batch, bits) ==
    [b \in 0 .. 1 |-> [x \in Uint |->
        IF \E p \in 1 .. Len(batch) : batch[p] = Addr(b, x)
        THEN LET p == CHOOSE q \in 1 .. Len(batch) : batch[q] = Addr(b, x)
             IN  IF bits[p] THEN "used" ELSE "unused"
        ELSE usedAnswer[b][x]]]

----------------------------------------------------------------------------
ProgramStart ==
    /\ pc = "main"
    /\ branch = 0 /\ n = 0 /\ begin = 0 /\ bucket = 0
    /\ i = 0 /\ max = 0 /\ j = 0 /\ addrs = <<>>
    /\ usedBits = <<>> /\ used = 0 /\ unused = 0
    /\ totalUsed = 0 /\ totalUnused = 0
    /\ err = "nil"
    /\ exitCode = 0 /\ logged = <<>> /\ output = <<>>
    /\ inflight = 0 /\ queries = <<>>
    /\ windows = <<>>

NothingKnown ==
    /\ childResult = [b \in 0 .. 1 |-> [x \in Uint |-> "unknown"]]
    /\ usedAnswer = [b \in 0 .. 1 |-> [x \in Uint |-> "unknown"]]

Init ==
    /\ externalFlag \in Uint
    /\ externalStartFlag \in Uint
    /\ internalFlag \in 0 .. MaxInternal
    /\ internalStartFlag \in 0 .. MaxInternal
    /\ bucketFlag \in Uint
    /\ ProgramStart
    /\ NothingKnown
    /\ stable = FALSE
    /\ run = 1 /\ prevOutput = <<>>

\* log.Fatal(msg)
Fatal(msg) ==
    /\ logged' = Append(logged, msg)
    /\ exitCode' = 1
    /\ pc' = "exit"
    /\ UNCHANGED output

\* main, up to the call of u.stats: flag validation, key parsing, dialling.
MainStart ==
    /\ pc = "main"
    /\ IF externalFlag = 0 /\ internalFlag = 0
       THEN Fatal("-external and/or -internal flags required")
       ELSE IF externalStartFlag > externalFlag
       THEN Fatal("-externalstart must not be greater than -external")
       ELSE IF internalStartFlag > internalFlag
       THEN Fatal("-internalstart must not be greater than -internal")
       ELSE \E ok \in BOOLEAN :
                IF ok
                THEN pc' = "stats" /\ UNCHANGED process
                ELSE Fatal("xpub, certificate or dial error")
    /\ UNCHANGED <<flags, locals, err, rpc, oracle, windows, invocation>>

\* The call u.branchStats(ctx, count, start, bucketSize, b).
Call(count, start, size, b) ==
    /\ n' = count /\ begin' = start /\ bucket' = size /\ branch' = b
    /\ pc' = "branchStats"
    /\ UNCHANGED <<i, max, j, addrs, usedBits, used, unused, totalUsed, totalUnused>>

\* stats: if external != 0 { err := u.branchStats(ctx, external, begin, bucketSize, 0) }
StatsExternal ==
    /\ pc = "stats"
    /\ IF externalFlag # 0
       THEN Call(externalFlag, externalStartFlag, bucketFlag, 0)
       ELSE pc' = "stats_internal" /\ UNCHANGED locals
    /\ UNCHANGED <<flags, err, process, rpc, oracle, windows, invocation>>

\* stats: if internal != 0 { err := u.branchStats(ctx, internal, begin, bucketSize, 1) }
StatsInternal ==
    /\ pc = "stats_internal"
    /\ IF internalFlag # 0
       THEN Call(internalFlag, internalStartFlag, bucketFlag, 1)
       ELSE pc' = "stats_ret" /\ UNCHANGED locals
    /\ UNCHANGED <<flags, err, process, rpc, oracle, windows, invocation>>

\* Mutant of AfterBranch: stats goes on to the internal branch whatever the
\* external one returned.
AfterBranchIgnoringErr(failed, b) ==
    IF b = 0 THEN "stats_internal" ELSE "stats_ret"

\* stats: if err != nil { return err }, after either call.
AfterBranch(failed, b) ==
    IF failed THEN "stats_ret"
    ELSE IF b = 0 THEN "stats_internal"
    ELSE "stats_ret"

StatsCheckErr ==
    /\ pc = "branch_ret"
    /\ pc' = AfterBranch(err # "nil", branch)
    /\ UNCHANGED <<flags, locals, err, process, rpc, oracle, windows, invocation>>

\* main: u.stats(ctx); c.Close().  The error stats returns is not read:
\* main falls off its end, and the process ends with status 0.
MainExit ==
    /\ pc = "stats_ret"
    /\ exitCode' = 0
    /\ pc' = "exit"
    /\ UNCHANGED <<flags, locals, err, logged, output, rpc, oracle, windows, invocation>>

----------------------------------------------------------------------------
\* branchStats, up to the loop: the branch key, the totals, the bucket default.
\* (make's capacity n*bucket sizes the slice's backing array and nothing else.)
EffectiveBucket(size, count) == IF size = 0 THEN count ELSE size

BranchStatsBegin ==
    /\ pc = "branchStats"
    /\ \E ok \in BOOLEAN :
        IF ok
        THEN /\ bucket' = EffectiveBucket(bucket, n)
             /\ i' = begin
             /\ addrs' = <<>>
             /\ totalUsed' = 0 /\ totalUnused' = 0
             /\ pc' = "loop"
             /\ UNCHANGED err
        ELSE /\ err' = "ErrDerive"
             /\ pc' = "branch_ret"
             /\ UNCHANGED <<bucket, i, addrs, totalUsed, totalUnused>>
    /\ UNCHANGED <<flags, branch, n, begin, max, j, usedBits, used, unused,
                   process, rpc, oracle, windows, invocation>>

IterationsOf(b) == Cardinality({k \in 1 .. Len(windows) : windows[k][1] = b})

\* for i := begin; i < n; ... { addrs = addrs[:0]; max := ... ; j := i
LoopHead ==
    /\ pc = "loop"
    /\ IF i < n
       THEN /\ IterationsOf(branch) < MaxIter
            /\ addrs' = <<>>
            /\ max' = WindowMax(i, bucket, n)
            /\ j' = i
            /\ windows' = Append(windows, <<branch, i, WindowMax(i, bucket, n)>>)
            /\ pc' = "derive"
       ELSE /\ pc' = "totals"
            /\ UNCHANGED <<addrs, max, j, windows>>
    /\ UNCHANGED <<flags, branch, n, begin, bucket, i, usedBits, used, unused,
                   totalUsed, totalUnused, err, process, rpc, oracle, invocation>>

\* for j := i; j < max; j++ { childKey, err := branchKey.Child(j) ... }
DeriveChild ==
    /\ pc = "derive"
    /\ IF j < max
       THEN \E r \in ChildOutcomes(branch, j) :
              /\ childResult' = [childResult EXCEPT ![branch][j] = r]
              /\ CASE r = "invalid" ->
                        /\ j' = Add32(j, 1)
                        /\ UNCHANGED <<addrs, err, pc>>
                   [] r = "ok" ->
                        /\ addrs' = Append(addrs, Addr(branch, j))
                        /\ j' = Add32(j, 1)
                        /\ UNCHANGED <<err, pc>>
                   [] r = "deriveErr" ->
                        /\ err' = "ErrDerive"
                        /\ pc' = "branch_ret"
                        /\ UNCHANGED <<addrs, j>>
                   [] r = "addrErr" ->
                        /\ err' = "ErrAddr"
                        /\ pc' = "branch_ret"
                        /\ UNCHANGED <<addrs, j>>
       ELSE /\ pc' = "query"
            /\ UNCHANGED <<addrs, j, err, childResult>>
    /\ UNCHANGED <<flags, branch, n, begin, bucket, i, max, usedBits, used, unused,
                   totalUsed, totalUnused, process, rpc, usedAnswer, stable,
                   windows, invocation>>

\* Mutant of QuerySend: an empty batch is not sent.
QuerySendSkipEmpty ==
    /\ pc = "query"
    /\ IF addrs # <<>>
       THEN /\ inflight' = inflight + 1
            /\ queries' = Append(queries,
                    [branch |-> branch, lo |-> i, hi |-> max, batch |-> addrs])
            /\ pc' = "await"
       ELSE /\ pc' = "count"
            /\ UNCHANGED rpc
    /\ UNCHANGED <<flags, locals, err, process, oracle, windows, invocation>>

\* usedBits, err := u.rpc.UsedAddresses(ctx, addrs): the request goes out,
\* whatever the batch holds.
QuerySend ==
    /\ pc = "query"
    /\ inflight' = inflight + 1
    /\ queries' = Append(queries,
            [branch |-> branch, lo |-> i, hi |-> max, batch |-> addrs])
    /\ pc' = "await"
    /\ UNCHANGED <<flags, locals, err, process, oracle, windows, invocation>>

\* ... and the answer, or the error, comes back.
QueryReturn ==
    /\ pc = "await"
    /\ inflight' = inflight - 1
    /\ \E ok \in BOOLEAN :
        IF ok
        THEN \E bits \in Bitsets(addrs) :
               /\ usedBits' = bits
               /\ usedAnswer' = IF stable THEN Remember(addrs, bits) ELSE usedAnswer
               /\ pc' = "count"
               /\ UNCHANGED err
        ELSE /\ err' = "ErrRPC"
             /\ pc' = "branch_ret"
             /\ UNCHANGED <<usedBits, usedAnswer>>
    /\ UNCHANGED <<flags, branch, n, begin, bucket, i, max, j, addrs, used, unused,
                   totalUsed, totalUnused, process, queries, childResult, stable,
                   windows, invocation>>

\* var used, unused uint32; for j := range addrs { ... }
CountBits ==
    /\ pc = "count"
    /\ used' = CountUsed(usedBits, addrs)
    /\ unused' = CountUnused(usedBits, addrs)
    /\ pc' = "fold"
    /\ UNCHANGED <<flags, branch, n, begin, bucket, i, max, j, addrs, usedBits,
                   totalUsed, totalUnused, err, process, rpc, oracle, windows,
                   invocation>>

\* totalUsed += used; totalUnused += unused; the window's line unless
\* bucket == n; i += bucket.  usedBits, used, unused and max are the loop
\* body's own and end with it.
FoldAndReport ==
    /\ pc = "fold"
    /\ totalUsed' = Add32(totalUsed, used)
    /\ totalUnused' = Add32(totalUnused, unused)
    /\ output' = IF SuppressLine(bucket, n)
                 THEN output
                 ELSE Append(output, WindowLine(branch, i, max, used, unused, Len(addrs)))
    /\ i' = Add32(i, bucket)
    /\ usedBits' = <<>> /\ used' = 0 /\ unused' = 0 /\ max' = 0 /\ j' = 0
    /\ pc' = "loop"
    /\ UNCHANGED <<flags, branch, n, begin, bucket, addrs, err, exitCode, logged,
                   rpc, oracle, windows, invocation>>

\* After the loop: the totals line; return nil.
Totals ==
    /\ pc = "totals"
    /\ output' = Append(output, TotalsLine(branch, totalUsed, totalUnused))
    /\ err' = "nil"
    /\ pc' = "branch_ret"
    /\ UNCHANGED <<flags, locals, exitCode, logged, rpc, oracle, windows, invocation>>

Next ==
    \/ MainStart
    \/ StatsExternal
    \/ StatsInternal
    \/ StatsCheckErr
    \/ MainExit
    \/ BranchStatsBegin
    \/ LoopHead
    \/ DeriveChild
    \/ QuerySend
    \/ QueryReturn
    \/ CountBits
    \/ FoldAndReport
    \/ Totals

Spec == Init /\ [][Next]_vars

----------------------------------------------------------------------------
\* Running the program a second time after a first run without error, on the
\* same key and against the same dcrd, with another -bucketsize: what child
\* keys derive to and what dcrd answers is carried over, everything else
\* starts afresh.
InitPair ==
    /\ externalFlag \in Uint
    /\ externalStartFlag \in Uint
    /\ internalFlag \in 0 .. MaxInternal
    /\ internalStartFlag \in 0 .. MaxInternal
    /\ bucketFlag = 0
    /\ ProgramStart
    /\ NothingKnown
    /\ stable = TRUE
    /\ run = 1 /\ prevOutput = <<>>

Rerun ==
    /\ pc = "exit"
    /\ run = 1
    /\ err = "nil" /\ exitCode = 0
    /\ run' = 2
    /\ prevOutput' = output
    /\ bucketFlag' \in 1 .. MaxUint
    /\ pc' = "main"
    /\ branch' = 0 /\ n' = 0 /\ begin' = 0 /\ bucket' = 0
    /\ i' = 0 /\ max' = 0 /\ j' = 0 /\ addrs' = <<>>
    /\ usedBits' = <<>> /\ used' = 0 /\ unused' = 0
    /\ totalUsed' = 0 /\ totalUnused' = 0
    /\ err' = "nil"
    /\ exitCode' = 0 /\ logged' = <<>> /\ output' = <<>>
    /\ inflight' = 0 /\ queries' = <<>>
    /\ windows' = <<>>
    /\ UNCHANGED <<externalFlag, internalFlag, externalStartFlag, internalStartFlag,
                   oracle>>

NextPair == Next \/ Rerun

SpecPair == InitPair /\ [][NextPair]_vars

----------------------------------------------------------------------------
\* Vocabulary of the properties.

\* -external / -internal and the matching start, by branch.
CountOf(b) == IF b = 0 THEN externalFlag ELSE internalFlag
StartOf(b) == IF b = 0 THEN externalStartFlag ELSE internalStartFlag
\* The effective window size W of a branch.
WidthOf(b) == IF bucketFlag = 0 THEN CountOf(b) ELSE bucketFlag
\* n + W stays within the unsigned range: no i + bucket of the scan wraps.
NoWrap(b) == CountOf(b) + WidthOf(b) <= MaxUint

WindowsOf(b) == SelectSeq(windows, LAMBDA w : w[1] = b)
QueriesOf(b) == SelectSeq(queries, LAMBDA q : q.branch = b)
WindowLinesOf(out, b) == SelectSeq(out, LAMBDA l : l.kind = "window" /\ l.branch = b)
TotalsLinesOf(out, b) == SelectSeq(out, LAMBDA l : l.kind = "totals" /\ l.branch = b)

\* The branch scan in hand returned nil.
Completed == pc = "branch_ret" /\ err = "nil"

\* Indices of [lo, hi) of branch b that derive to a key.
ValidIn(b, lo, hi) == {x \in Uint : lo <= x /\ x < hi /\ childResult[b][x] = "ok"}

\* How often index x was walked over by the windows of branch b.
Visits(b, x) ==
    Cardinality({k \in 1 .. Len(windows) :
        windows[k][1] = b /\ windows[k][2] <= x /\ x < windows[k][3]})

RECURSIVE SumCounts(_)
SumCounts(lines) ==
    IF lines = <<>> THEN 0
    ELSE Head(lines).used + Head(lines).unused + SumCounts(Tail(lines))

\* The addresses of the valid indices of [lo, hi), in ascending index order.
RECURSIVE ValidBatch(_, _, _)
ValidBatch(b, lo, hi) ==
    IF lo >= hi THEN <<>>
    ELSE (IF childResult[b][lo] = "ok" THEN <<Addr(b, lo)>> ELSE <<>>)
         \o ValidBatch(b, lo + 1, hi)

----------------------------------------------------------------------------
\* C1: when a branch scan returns nil, every index of [begin, n) was either
\* derived or skipped as an invalid child, totalUsed + totalUnused is the
\* number of indices of [begin, n) that are not invalid children, and the
\* counts of the printed window lines add up to the totals.
C1_TotalsCountValidIndices ==
    Completed =>
        /\ \A x \in Uint : begin <= x /\ x < n
                => childResult[branch][x] \in {"ok", "invalid"}
        /\ totalUsed + totalUnused = Cardinality(ValidIn(branch, begin, n))
        /\ ~SuppressLine(bucket, n)
                => SumCounts(WindowLinesOf(output, branch)) = totalUsed + totalUnused

\* The same statement for the scans in which no i + bucket wraps.
C1_WithinRange == NoWrap(branch) => C1_TotalsCountValidIndices

\* C2: a process that ends after stats returned an error ends with a
\* non-zero exit code and a message on stderr.
C2_ErrorExitsNonZero ==
    (pc = "exit" /\ err # "nil") => (exitCode # 0 /\ logged # <<>>)

\* C3: a run with -bucketsize > 0 that ends without error prints the same
\* totals lines as the run with -bucketsize 0 before it did, the key, the
\* counts, the starts and dcrd's answers being the same.
C3_SameTotalsAnyBucket ==
    (run = 2 /\ pc = "exit" /\ err = "nil" /\ exitCode = 0)
        => \A b \in 0 .. 1 : TotalsLinesOf(output, b) = TotalsLinesOf(prevOutput, b)

C3_WithinRange ==
    (\A b \in 0 .. 1 : CountOf(b) + CountOf(b) <= MaxUint /\ NoWrap(b))
        => C3_SameTotalsAnyBucket

\* Every index of the non-empty window [lo, hi) of branch b is an invalid child.
AllInvalid(b, lo, hi) ==
    lo < hi /\ \A x \in Uint : (lo <= x /\ x < hi) => childResult[b][x] = "invalid"

\* C4 as stated: no query is ever sent for a window all of whose indices are
\* invalid children.
C4_NoQueryForEmptyBatch ==
    \A k \in 1 .. Len(queries) :
        ~AllInvalid(queries[k].branch, queries[k].lo, queries[k].hi)

\* C4 as amended: for a window all of whose indices are invalid children the
\* batch is empty and the query is still sent, with that empty batch; once it
\* has returned, the window adds (0, 0) to the totals and the loop goes on to
\* the next window.
C4_EmptyBatchIsQueried ==
    [][ /\ (pc = "query" /\ AllInvalid(branch, i, max))
            => /\ addrs = <<>>
               /\ pc' = "await"
               /\ queries' = Append(queries,
                      [branch |-> branch, lo |-> i, hi |-> max, batch |-> <<>>])
        /\ (pc = "fold" /\ AllInvalid(branch, i, max))
            => /\ used = 0 /\ unused = 0
               /\ totalUsed' = totalUsed /\ totalUnused' = totalUnused
               /\ i' = Add32(i, bucket)
               /\ pc' = "loop"
      ]_vars

C4_Witness ==
    /\ pc = "loop"
    /\ Len(queries) >= 2
    /\ queries[Len(queries)].batch = <<>>
    /\ AllInvalid(branch, queries[Len(queries)].lo, queries[Len(queries)].hi)
    /\ queries[Len(queries)].hi - queries[Len(queries)].lo = 2
    /\ totalUsed + totalUnused > 0
    /\ i < n

\* The number of windows of the partition of [lo, hi) into windows of size w.
PartitionSize(lo, hi, w) ==
    IF lo >= hi THEN 0 ELSE ((hi - lo) + w - 1) \div w

\* C5 as stated: a branch scan that returns nil has printed one totals line
\* and, with -bucketsize 0, no window line, with any other -bucketsize one
\* window line for each window of the partition of [begin, n).
C5_LinesDependOnBucketingOnly ==
    Completed =>
        /\ Len(TotalsLinesOf(output, branch)) = 1
        /\ Len(WindowLinesOf(output, branch)) =
              IF bucketFlag = 0 THEN 0 ELSE PartitionSize(begin, n, bucketFlag)

\* The window lines a scan of the windows ws prints.
RECURSIVE LinesFor(_)
LinesFor(ws) ==
    IF ws = <<>> THEN <<>>
    ELSE <<[lo |-> Head(ws)[2], hi |-> Head(ws)[3]]>> \o LinesFor(Tail(ws))

RECURSIVE Bounds(_)
Bounds(lines) ==
    IF lines = <<>> THEN <<>>
    ELSE <<[lo |-> Head(lines).lo, hi |-> Head(lines).hi]>> \o Bounds(Tail(lines))

\* C5 as amended: a branch scan that returns nil has printed exactly one
\* totals line, as the last line; with -bucketsize 0 or -bucketsize equal to
\* the branch's count it has printed no window line, and with any other
\* -bucketsize exactly one window line for each window the loop went
\* through, in the loop's order.
C5_LinesUnlessBucketIsCount ==
    Completed =>
        /\ Len(TotalsLinesOf(output, branch)) = 1
        /\ output[Len(output)] = TotalsLine(branch, totalUsed, totalUnused)
        /\ Bounds(WindowLinesOf(output, branch)) =
              IF bucketFlag = 0 \/ bucketFlag = n
              THEN <<>>
              ELSE LinesFor(WindowsOf(branch))

C5_Witness ==
    /\ Completed
    /\ bucketFlag = n
    /\ begin > 0
    /\ Len(WindowsOf(branch)) = 1
    /\ WindowLinesOf(output, branch) = <<>>

\* C6: when a window's answer has been counted, the batch holds the
\* addresses of the window's valid indices in ascending order and nothing
\* else, the bitset has one position per address of the batch, used is the
\* number of set and unused the number of unset positions among them.
C6_BitsAlignWithBatch ==
    pc = "fold" =>
        /\ addrs = ValidBatch(branch, i, max)
        /\ Len(usedBits) = Len(addrs)
        /\ used = Cardinality({p \in DOMAIN usedBits : usedBits[p]})
        /\ unused = Cardinality({p \in DOMAIN usedBits : ~usedBits[p]})
        /\ used + unused = Len(addrs)

C6_Witness ==
    /\ pc = "fold"
    /\ childResult[branch][i] = "invalid"
    /\ Len(addrs) = 2
    /\ max - i = 3
    /\ usedBits = <<FALSE, TRUE>>
    /\ addrs[2] = Addr(branch, i + 2)
    /\ used = 1 /\ unused = 1

\* C7: once a branch scan has failed, nothing more is printed or queried and
\* no window is entered: the step that fails returns from branchStats at
\* once without printing, the failing window has no line, the branch has no
\* totals line, the lines printed before stay, and stats returns without
\* calling branchStats for the other branch.
C7_AbortOnFailure ==
    [][ /\ (err = "nil" /\ err' # "nil")
            => /\ pc' = "branch_ret"
               /\ output' = output
               /\ queries' = queries
               /\ windows' = windows
        /\ err # "nil"
            => /\ pc \in {"branch_ret", "stats_ret", "exit"}
               /\ pc' \in {"stats_ret", "exit"}
               /\ err' = err
               /\ output' = output
               /\ queries' = queries
               /\ windows' = windows
               /\ branch' = branch
               /\ TotalsLinesOf(output, branch) = <<>>
               /\ Len(WindowLinesOf(output, branch)) =
                    IF WindowsOf(branch) = <<>> \/ SuppressLine(bucket, n)
                    THEN 0
                    ELSE Len(WindowsOf(branch)) - 1
               /\ branch = 0 => WindowsOf(1) = <<>> /\ QueriesOf(1) = <<>>
      ]_vars

C7_Witness ==
    /\ pc = "exit"
    /\ err = "ErrRPC"
    /\ branch = 0
    /\ internalFlag # 0
    /\ Len(WindowLinesOf(output, 0)) = 1
    /\ Len(QueriesOf(0)) = 2

\* C8: in a branch whose n + W stays within the unsigned range, the windows
\* entered so far are consecutive: the first starts at begin, each next one
\* starts where the one before ended, each holds at least one and at most W
\* indices, a window shorter than W ends at n; when the loop is over the
\* last window ended at n, and no window was entered when begin = n.
C8_WindowsPartitionRange ==
    \A b \in 0 .. 1 :
        LET ws == WindowsOf(b)
            W == WidthOf(b)
        IN  NoWrap(b) =>
              /\ ws # <<>> => ws[1][2] = StartOf(b)
              /\ \A k \in 1 .. Len(ws) :
                    /\ 1 <= ws[k][3] - ws[k][2]
                    /\ ws[k][3] - ws[k][2] <= W
                    /\ ws[k][3] <= CountOf(b)
                    /\ ws[k][3] - ws[k][2] < W => ws[k][3] = CountOf(b)
                    /\ k < Len(ws) => ws[k + 1][2] = ws[k][3]
                    /\ k < Len(ws) => ws[k][3] - ws[k][2] = W
              /\ (branch = b /\ pc \in {"totals", "branch_ret"} /\ err = "nil")
                    => IF StartOf(b) = CountOf(b)
                       THEN ws = <<>>
                       ELSE ws # <<>> /\ ws[Len(ws)][3] = CountOf(b)

C8_Witness ==
    /\ Completed
    /\ branch = 0
    /\ NoWrap(0)
    /\ bucketFlag = 2
    /\ WindowsOf(0) = <<<<0, 0, 2>>, <<0, 2, 3>>>>

\* C9: at most one query is outstanding; no query of the internal branch is
\* issued before the last query of the external branch; within a branch
\* there is one query per window entered, in the loop's order, each for a
\* window that starts above the one before and not below its end, each sent
\* when all the window's indices have been derived; and, unless the lines
\* are suppressed, the window's line is printed before the next query goes
\* out and not while its own query is outstanding.
C9_StrictlySequential ==
    /\ inflight <= 1
    /\ \A k, l \in 1 .. Len(queries) : k < l => queries[k].branch <= queries[l].branch
    /\ \A b \in 0 .. 1 :
        LET qs == QueriesOf(b)
            ws == WindowsOf(b)
        IN  /\ Len(qs) <= Len(ws)
            /\ Len(ws) <= Len(qs) + 1
            /\ \A k \in 1 .. Len(qs) :
                /\ qs[k].lo = ws[k][2] /\ qs[k].hi = ws[k][3]
                /\ qs[k].batch = ValidBatch(b, qs[k].lo, qs[k].hi)
                /\ \A x \in Uint : (qs[k].lo <= x /\ x < qs[k].hi)
                        => childResult[b][x] \in {"ok", "invalid"}
                /\ k < Len(qs) => qs[k].lo < qs[k + 1].lo /\ qs[k].hi <= qs[k + 1].lo
            /\ (qs # <<>> /\ ~(bucketFlag = 0 \/ bucketFlag = CountOf(b)))
                => /\ Len(WindowLinesOf(output, b)) + 1 >= Len(qs)
                   /\ Len(WindowLinesOf(output, b)) <= Len(qs)
                   /\ (inflight = 1 /\ branch = b)
                        => Len(WindowLinesOf(output, b)) + 1 = Len(qs)

\* The same statement for the scans in which no i + bucket wraps.
C9_WithinRange ==
    (\A b \in 0 .. 1 : NoWrap(b)) => C9_StrictlySequential

\* C10: the window loop ends, and no index of [begin, n) is left out or gone
\* through twice.  A loop that ends enters at most Modulus windows, its
\* variable i never taking a value twice.
C10_LoopEndsEachIndexOnce ==
    /\ IterationsOf(branch) <= Modulus
    /\ \A x \in Uint : (begin <= x /\ x < n) => Visits(branch, x) <= 1
    /\ pc = "totals" => \A x \in Uint : (begin <= x /\ x < n) => Visits(branch, x) = 1

\* Its first part alone: the loop ends.
C10_LoopEnds == IterationsOf(branch) <= Modulus

\* The same statement for the scans in which no i + bucket wraps.
C10_WithinRange == NoWrap(branch) => C10_LoopEndsEachIndexOnce

====
